---------------------------- MODULE Spec2Model ----------------------------
(***************************************************************************)
(* A model of the EU emissions analysis pipeline                           *)
(*   src/src/eu_emissions_functions.py  (plot_stacked_barplot)             *)
(*   src/src/eu_emissions_main.py       (builders and main)                *)
(*   src/src/eu_emissions_config.py     (configuration)                    *)
(*                                                                         *)
(* Numbers.  Emissions values are integers; a missing value (NaN) is the   *)
(* sentinel NaN, which every arithmetic helper propagates the way pandas   *)
(* and numpy do.  Quantities the code computes with fractional factors are *)
(* kept exact by scaling: x positions are in tenths (group_loc -0.5 is -5),*)
(* y limits and rectangle ordinates are in thousandths (1.02 * m is        *)
(* 1020 * m), and a quotient a / b is the pair <<a, b>>.                   *)
(***************************************************************************)
EXTENDS Integers, Sequences, FiniteSets, TLC

(***************************************************************************)
(* Bounds of the model.                                                    *)
(***************************************************************************)
\* Largest number of rows of a table handed directly to plot_stacked_barplot.
MaxRows == 2

(***************************************************************************)
(* Missing values.                                                         *)
(***************************************************************************)
NaN == 987654321

IsNa(x) == x = NaN

NotNa(x) == x # NaN

\* x + y, x - y, k * x with NaN propagating.
Add(x, y) == IF IsNa(x) \/ IsNa(y) THEN NaN ELSE x + y

Sub(x, y) == IF IsNa(x) \/ IsNa(y) THEN NaN ELSE x - y

Scale(k, x) == IF IsNa(x) THEN NaN ELSE k * x

\* Comparisons with NaN are False.
Lt0(x) == NotNa(x) /\ x < 0

Gt0(x) == NotNa(x) /\ x > 0

(***************************************************************************)
(* Sequence helpers.                                                       *)
(***************************************************************************)
Range(s) == {s[i] : i \in 1..Len(s)}

RECURSIVE SumSeq(_)
SumSeq(s) == IF s = <<>> THEN 0 ELSE Head(s) + SumSeq(Tail(s))

\* The position of the first occurrence of x in s (list.index), 0-based;
\* s must contain x.
IndexOf(s, x) == (CHOOSE i \in 1..Len(s) : s[i] = x /\ \A j \in 1..(i-1) : s[j] # x) - 1

\* All sequences over S of length at most n.
SeqsUpTo(S, n) == UNION {[1..k -> S] : k \in 0..n}

\* All sequences over S without repetition.
Arrangements(S) == {s \in SeqsUpTo(S, Cardinality(S)) :
                      \A i, j \in 1..Len(s) : i # j => s[i] # s[j]}

(***************************************************************************)
(* Keys.  pandas' groupby returns its groups sorted by key; KeyOrder lists *)
(* the strings the model uses as keys (countries, gases, the names of the  *)
(* first sub-sectors of each sector) in Python's string order, and a key's *)
(* rank is its position there.                                             *)
(***************************************************************************)
KeyOrder ==
    <<"", " Sub-sector 1", " Sub-sector 1.A.1",
      " Sub-sector 1.A.2", " Sub-sector 1.A.3", " Sub-sector 2",
      " Sub-sector 2.A", " Sub-sector 2.B", " Sub-sector 2.C",
      " Sub-sector 3", " Sub-sector 3.A", " Sub-sector 3.B",
      " Sub-sector 3.C", " Sub-sector 4.A", " Sub-sector 4.B",
      " Sub-sector 4.C", " Sub-sector 5.A", " Sub-sector 5.B",
      " Sub-sector 5.C", "AT", "Austria", "CH4", "CO2", "EL",
      "EU27", "GR", "Greece", "Kosovo", "Total", "XK",
      "sector 1", "sector 1.A.1", "sector 1.A.2", "sector 1.A.3",
      "sector 2", "sector 2.A", "sector 2.B", "sector 2.C",
      "sector 3", "sector 3.A", "sector 3.B", "sector 3.C",
      "sector 4.A", "sector 4.B", "sector 4.C", "sector 5.A",
      "sector 5.B", "sector 5.C">>

Rank(k) == 1 + IndexOf(KeyOrder, k)

\* The keys of S in ascending order.
RECURSIVE SortedKeys(_)
SortedKeys(S) ==
    IF S = {} THEN <<>>
    ELSE LET k == CHOOSE x \in S : \A y \in S : Rank(x) <= Rank(y)
         IN  <<k>> \o SortedKeys(S \ {k})

(***************************************************************************)
(* Tables.  A table is a sequence of rows (records), in file order.        *)
(* plot_stacked_barplot is handed a table and the names of three of its    *)
(* columns; in the model the caller hands it rows                          *)
(*   [group |-> row[group_col], hue |-> row[hue_col],                      *)
(*    val |-> row[emissions_col],                                          *)
(*    base |-> row[emissions_col.removesuffix("_share")]].                 *)
(***************************************************************************)
\* df.loc[mask] is SelectSeq(df, mask): the rows satisfying mask, in order.
Column(df, col) == [i \in 1..Len(df) |-> df[i][col]]

\* Series.sum(): missing values are skipped, the sum of nothing is 0.
RECURSIVE SumSkipNa(_)
SumSkipNa(s) ==
    IF s = <<>> THEN 0
    ELSE (IF IsNa(Head(s)) THEN 0 ELSE Head(s)) + SumSkipNa(Tail(s))

\* df.groupby(by)[col].sum(): one entry per key, the keys ascending.
GroupBySum(df, by, col) ==
    LET keys == SortedKeys(Range(Column(df, by)))
        Of(k) == SelectSeq(df, LAMBDA r : r[by] = k)
    IN  [i \in 1..Len(keys) |->
            [key |-> keys[i], sum |-> SumSkipNa(Column(Of(keys[i]), col))]]

RemoveAt(s, i) == SubSeq(s, 1, i - 1) \o SubSeq(s, i + 1, Len(s))

\* A mutation of SortValuesDescending: ascending order.
RECURSIVE SortValuesAscending(_)
SortValuesAscending(s) ==
    IF s = <<>> THEN <<>>
    ELSE LET i == CHOOSE i \in 1..Len(s) :
                     /\ \A j \in 1..Len(s) : s[j].sum >= s[i].sum
                     /\ \A j \in 1..(i-1) : s[j].sum > s[i].sum
         IN  <<s[i]>> \o SortValuesAscending(RemoveAt(s, i))

\* Series.sort_values(ascending=False): the largest sum first; entries with
\* equal sums keep the order they have in s (pandas reverses, sorts and
\* reverses again, which keeps ties in index order for the small series
\* numpy sorts by insertion).
RECURSIVE SortValuesDescending(_)
SortValuesDescending(s) ==
    IF s = <<>> THEN <<>>
    ELSE LET i == CHOOSE i \in 1..Len(s) :
                     /\ \A j \in 1..Len(s) : s[j].sum <= s[i].sum
                     /\ \A j \in 1..(i-1) : s[j].sum < s[i].sum
         IN  <<s[i]>> \o SortValuesDescending(RemoveAt(s, i))

\* Series.max() and Series.min(): NaN for an empty series.
SeriesMax(s) ==
    IF s = <<>> THEN NaN
    ELSE CHOOSE m \in Range(Column(s, "sum")) :
             \A x \in Range(Column(s, "sum")) : x <= m

SeriesMin(s) ==
    IF s = <<>> THEN NaN
    ELSE CHOOSE m \in Range(Column(s, "sum")) :
             \A x \in Range(Column(s, "sum")) : x >= m

\* The value of key k in a series (Series.loc[k]).
SeriesLoc(s, k) == (CHOOSE e \in Range(s) : e.key = k).sum

(***************************************************************************)
(* plot_stacked_barplot: the computations of its steps.                    *)
(***************************************************************************)
\* Lines 73-87: the per-group sums, largest first.  In share mode the sums
\* are those of the base column.
GroupSumsSorted(df, stat) ==
    SortValuesDescending(
        GroupBySum(df, "group", IF stat # "share" THEN "val" ELSE "base"))

\* Line 88: group_sums_sorted.index.to_list().
GroupOrder(sums) == Column(sums, "key")

\* Lines 91-96: the largest per-group sum of the strictly positive values.
GroupPosMax(df) ==
    SeriesMax(GroupBySum(SelectSeq(df, LAMBDA r : Gt0(r.val)), "group", "val"))

\* Lines 98-103: the smallest per-group sum of the strictly negative values.
GroupNegMax(df) ==
    SeriesMin(GroupBySum(SelectSeq(df, LAMBDA r : Lt0(r.val)), "group", "val"))

\* Line 111: the rows of one group.
GroupRows(df, group) == SelectSeq(df, LAMBDA r : r.group = group)

\* Lines 118-120 before squeeze(): the values of the rows of the group
\* that carry the hue.
Selected(gdf, hue) == Column(SelectSeq(gdf, LAMBDA r : r.hue = hue), "val")

\* A mutation of IsSeries: several matching rows are read as the first.
IsSeriesFirstOfMany(sel) == Len(sel) = 0

\* Lines 120-124: squeeze() turns a selection of exactly one value into a
\* scalar and leaves any other selection (none, or several) a Series.
IsSeries(sel) == Len(sel) # 1

\* A mutation of TmpBottom: a negative segment starts at the accumulator.
TmpBottomAtBelow(emissions, above, below) ==
    IF Lt0(emissions) THEN below ELSE above

\* Lines 128-133.
TmpBottom(emissions, above, below) ==
    IF Lt0(emissions) THEN Add(below, emissions) ELSE above

Height(emissions) ==
    IF Lt0(emissions) THEN Scale(-1, emissions) ELSE emissions

\* Lines 145-148.
NextBelow(emissions, below) ==
    IF emissions < 0 THEN below + emissions ELSE below

NextAbove(emissions, above) ==
    IF emissions < 0 THEN above ELSE above + emissions

\* Line 155.
WantsNetPatch(below) == below # 0

\* A mutation of MissingPaletteKeys: the legend handles look nothing up.
NoPaletteLookup(order, pal) == {}

\* Lines 168-171: the legend handles look up every hue of hue_order.
MissingPaletteKeys(order, pal) == {h \in Range(order) : h \notin DOMAIN pal}

\* Lines 212-221, in thousandths: -0.005 * m is -5 * m.
YLim(pos, neg) ==
    IF IsNa(neg)
    THEN <<Scale(-5, pos), Scale(1020, pos)>>
    ELSE LET plot_range == Sub(pos, neg)
         IN  <<Sub(Scale(1000, neg), Scale(10, plot_range)),
               Add(Scale(1000, pos), Scale(10, plot_range))>>

\* Lines 227-238.  x and width are in tenths; y and height are in
\* millionths (the limits being in thousandths, 0.005 * span is 5 * span).
NetEmissionsRect(net_patch, order, sums, lim) ==
    [x      |-> -5 + 10 * IndexOf(order, net_patch) - 1,
     y      |-> 1000000 * SeriesLoc(sums, net_patch) - 5 * (lim[2] - lim[1]),
     width  |-> 2,
     height |-> 10 * (lim[2] - lim[1]),
     group  |-> net_patch]

(***************************************************************************)
(* State.                                                                  *)
(***************************************************************************)
VARIABLES
    pc,                 \* where control is
    error,              \* the exception that ended the run ("" for none)
    files,              \* the paths written by savefig, in order
    \* plot_stacked_barplot: its arguments
    stack_df,           \* emissions_df, as rows [group, hue, val, base]
    hue_order, palette, statistic,
    save_path,          \* [dir |-> save_dir, name |-> save_name]
    \* plot_stacked_barplot: its locals
    group_sums_sorted, group_order, group_pos_max, group_neg_max,
    idx,                \* position of the group in group_order (from 1)
    hidx,               \* position of the hue in hue_order (from 1)
    group_df, bottom_above, bottom_below,
    group_loc,          \* in tenths
    group_locs, net_patches_to_add,
    bars,               \* the plt.bar calls; group, hue and value are ghosts
    ylim,               \* the limits handed to set_ylim, in thousandths
    net_patches,        \* the rectangles handed to add_patch
    finals,             \* ghost: the accumulators of each finished group
    \* main and the builders it calls
    in_main,            \* whether main is running (or a function on its own)
    population_of,      \* pypopulation's answers: code -> population or NaN
    raw_df,             \* ghost: the table as read (main, lines 321-337)
    emissions_df,       \* main's table, shared by every call
    enriched_df,        \* ghost: the table create_emissions_per_capita left
    metric_i,           \* main's loops: position in the list of metrics,
    statistic_i,        \*   of statistics,
    sector_i,           \*   of sectors
    local_df            \* the builder's own table (gas_emissions,
                        \*   sector_overall_emissions)

plotArgs == <<stack_df, hue_order, palette, statistic, save_path>>

plotLocals == <<group_sums_sorted, group_order, group_pos_max, group_neg_max,
                idx, hidx, group_df, bottom_above, bottom_below, group_loc,
                group_locs, net_patches_to_add, bars, ylim, net_patches,
                finals>>

callerVars == <<in_main, population_of, raw_df, emissions_df, enriched_df,
                metric_i, statistic_i, sector_i, local_df>>

vars == <<pc, error, files, plotArgs, plotLocals, callerVars>>

\* No caller: plot_stacked_barplot runs on its own.
CallerIdle ==
    /\ in_main = FALSE
    /\ population_of = <<>>
    /\ raw_df = <<>> /\ emissions_df = <<>> /\ enriched_df = <<>>
    /\ metric_i = 0 /\ statistic_i = 0 /\ sector_i = 0
    /\ local_df = <<>>

\* The locals before plot_stacked_barplot has run.
LocalsUnset ==
    /\ group_sums_sorted = <<>> /\ group_order = <<>>
    /\ group_pos_max = NaN /\ group_neg_max = NaN
    /\ idx = 0 /\ hidx = 0 /\ group_df = <<>>
    /\ bottom_above = 0 /\ bottom_below = 0
    /\ group_loc = -5 /\ group_locs = <<>> /\ net_patches_to_add = <<>>
    /\ bars = <<>> /\ ylim = <<NaN, NaN>> /\ net_patches = <<>>
    /\ finals = <<>>

(***************************************************************************)
(* plot_stacked_barplot, step by step.                                     *)
(***************************************************************************)
\* Lines 71-108: the group order, the extents, the loop's initial state.
PlotSetup ==
    /\ pc = "plot"
    /\ group_sums_sorted' = GroupSumsSorted(stack_df, statistic)
    /\ group_order' = GroupOrder(group_sums_sorted')
    /\ group_pos_max' = GroupPosMax(stack_df)
    /\ group_neg_max' = GroupNegMax(stack_df)
    /\ group_loc' = -5
    /\ group_locs' = <<>>
    /\ net_patches_to_add' = <<>>
    /\ idx' = 1
    /\ pc' = "group"
    /\ UNCHANGED <<error, files, plotArgs, hidx, group_df, bottom_above,
                   bottom_below, bars, ylim, net_patches, finals>>
    /\ UNCHANGED callerVars

\* Lines 109-115: the next group's rows, its accumulators at 0.
BeginGroup ==
    /\ pc = "group"
    /\ idx <= Len(group_order)
    /\ group_df' = GroupRows(stack_df, group_order[idx])
    /\ bottom_above' = 0
    /\ bottom_below' = 0
    /\ hidx' = 1
    /\ pc' = "hue"
    /\ UNCHANGED <<error, files, plotArgs, group_sums_sorted, group_order,
                   group_pos_max, group_neg_max, idx, group_loc, group_locs,
                   net_patches_to_add, bars, ylim, net_patches, finals>>
    /\ UNCHANGED callerVars

\* Lines 116-151: one hue of the group.
StackHue ==
    /\ pc = "hue"
    /\ hidx <= Len(hue_order)
    /\ LET hue == hue_order[hidx]
           sel == Selected(group_df, hue)
           emissions == sel[1]
       IN  IF IsSeries(sel) \/ IsNa(emissions)
           THEN \* continue
                /\ hidx' = hidx + 1
                /\ UNCHANGED <<pc, error, bars, bottom_above, bottom_below>>
           ELSE IF hue \notin DOMAIN palette
           THEN \* palette[hue] raises KeyError
                /\ pc' = "error"
                /\ error' = "KeyError"
                /\ UNCHANGED <<hidx, bars, bottom_above, bottom_below>>
           ELSE /\ bars' = Append(bars,
                      [x      |-> group_loc,
                       height |-> Height(emissions),
                       bottom |-> TmpBottom(emissions, bottom_above,
                                            bottom_below),
                       color  |-> palette[hue],
                       group  |-> group_order[idx],
                       hue    |-> hue,
                       value  |-> emissions])
                /\ bottom_below' = NextBelow(emissions, bottom_below)
                /\ bottom_above' = NextAbove(emissions, bottom_above)
                /\ hidx' = hidx + 1
                /\ UNCHANGED <<pc, error>>
    /\ UNCHANGED <<files, plotArgs, group_sums_sorted, group_order,
                   group_pos_max, group_neg_max, idx, group_df, group_loc,
                   group_locs, net_patches_to_add, ylim, net_patches, finals>>
    /\ UNCHANGED callerVars

\* Lines 153-160: the net-emissions record, the group's location.
EndGroup ==
    /\ pc = "hue"
    /\ hidx > Len(hue_order)
    /\ net_patches_to_add' =
           IF WantsNetPatch(bottom_below)
           THEN Append(net_patches_to_add, group_order[idx])
           ELSE net_patches_to_add
    /\ group_locs' = Append(group_locs, group_loc)
    /\ group_loc' = group_loc + 10
    /\ finals' = Append(finals, [group |-> group_order[idx],
                                 above |-> bottom_above,
                                 below |-> bottom_below])
    /\ idx' = idx + 1
    /\ pc' = "group"
    /\ UNCHANGED <<error, files, plotArgs, group_sums_sorted, group_order,
                   group_pos_max, group_neg_max, hidx, group_df,
                   bottom_above, bottom_below, bars, ylim, net_patches>>
    /\ UNCHANGED callerVars

\* Lines 162-208: ticks, legend handles (a palette lookup per hue), legend.
CreateLegend ==
    /\ pc = "group"
    /\ idx > Len(group_order)
    /\ IF MissingPaletteKeys(hue_order, palette) # {}
       THEN pc' = "error" /\ error' = "KeyError"
       ELSE pc' = "limits" /\ UNCHANGED error
    /\ UNCHANGED <<files, plotArgs, plotLocals>>
    /\ UNCHANGED callerVars

\* Lines 210-221: group_locs[0] raises IndexError when there is no group;
\* matplotlib's set_ylim raises ValueError for a NaN limit.
SetLimits ==
    /\ pc = "limits"
    /\ IF group_locs = <<>>
       THEN pc' = "error" /\ error' = "IndexError" /\ UNCHANGED ylim
       ELSE /\ ylim' = YLim(group_pos_max, group_neg_max)
            /\ IF IsNa(ylim'[1]) \/ IsNa(ylim'[2])
               THEN pc' = "error" /\ error' = "ValueError"
               ELSE pc' = "patches" /\ UNCHANGED error
    /\ UNCHANGED <<files, plotArgs, group_sums_sorted, group_order,
                   group_pos_max, group_neg_max, idx, hidx, group_df,
                   bottom_above, bottom_below, group_loc, group_locs,
                   net_patches_to_add, bars, net_patches, finals>>
    /\ UNCHANGED callerVars

\* Lines 223-247: one rectangle per recorded group.
AddNetPatches ==
    /\ pc = "patches"
    /\ net_patches' =
           [i \in 1..Len(net_patches_to_add) |->
               NetEmissionsRect(net_patches_to_add[i], group_order,
                                group_sums_sorted, ylim)]
    /\ pc' = "save"
    /\ UNCHANGED <<error, files, plotArgs, group_sums_sorted, group_order,
                   group_pos_max, group_neg_max, idx, hidx, group_df,
                   bottom_above, bottom_below, group_loc, group_locs,
                   net_patches_to_add, bars, ylim, finals>>
    /\ UNCHANGED callerVars

\* Lines 249-254.
SaveFig ==
    /\ pc = "save"
    /\ files' = Append(files, save_path.dir \o save_path.name)
    /\ pc' = "done"
    /\ UNCHANGED <<error, plotArgs, plotLocals>>
    /\ UNCHANGED callerVars

(***************************************************************************)
(* plot_stacked_barplot called on its own, on any small table.             *)
(***************************************************************************)
Groups == {"Austria", "Greece"}

Hues == {"CH4", "CO2"}

Values == {-1, 0, 2, NaN}

\* Rows of a table plotted in total mode: the base column is the value
\* column itself.
Rows == {[group |-> g, hue |-> h, val |-> v, base |-> v] :
            g \in Groups, h \in Hues, v \in Values}

\* A palette maps each of its hues to a colour (here a number).
PaletteOn(D) == [h \in D |-> Rank(h)]

Init ==
    /\ pc = "plot"
    /\ error = ""
    /\ files = <<>>
    /\ stack_df \in SeqsUpTo(Rows, MaxRows)
    /\ hue_order \in Arrangements(Hues)
    /\ palette \in {PaletteOn(Hues), PaletteOn({"CH4"})}
    /\ statistic = "total"
    /\ save_path = [dir |-> "results/emissions/", name |-> "stacked.png"]
    /\ LocalsUnset
    /\ CallerIdle

Next ==
    \/ PlotSetup
    \/ BeginGroup
    \/ StackHue
    \/ EndGroup
    \/ CreateLegend
    \/ SetLimits
    \/ AddNetPatches
    \/ SaveFig

Spec == Init /\ [][Next]_vars

(***************************************************************************)
(* Properties of plot_stacked_barplot.                                     *)
(***************************************************************************)
\* The values of the bars among the first n drawn that belong to group g
\* and lie above zero (side = "above": value >= 0) or below it.
DrawnValues(n, g, side) ==
    Column(SelectSeq(SubSeq(bars, 1, n),
                     LAMBDA b : b.group = g /\ ((b.value < 0) <=> (side = "below"))),
           "value")

\* The table's rows for a (group, hue) pair.
PairRows(g, h) == SelectSeq(stack_df, LAMBDA r : r.group = g /\ r.hue = h)

\* C1: every drawn segment carries the single non-missing value v of its
\* (group, hue) pair; a negative v is drawn from below + v with height -v, a
\* non-negative v from above with height v, above and below being the sums of
\* the non-negative and of the negative values drawn before it in the same
\* group (0 at the group's start); while a group is being stacked and once it
\* is finished, its accumulators are those sums over all its drawn segments.
C1_Stacking ==
    /\ \A i \in 1..Len(bars) :
          LET b == bars[i]
              above == SumSeq(DrawnValues(i - 1, b.group, "above"))
              below == SumSeq(DrawnValues(i - 1, b.group, "below"))
          IN  /\ Len(PairRows(b.group, b.hue)) = 1
              /\ PairRows(b.group, b.hue)[1].val = b.value
              /\ NotNa(b.value)
              /\ b.value < 0 => b.bottom = below + b.value /\ b.height = -b.value
              /\ b.value >= 0 => b.bottom = above /\ b.height = b.value
    /\ pc = "hue" =>
          /\ bottom_above = SumSeq(DrawnValues(Len(bars), group_order[idx], "above"))
          /\ bottom_below = SumSeq(DrawnValues(Len(bars), group_order[idx], "below"))
    /\ \A k \in 1..Len(finals) :
          /\ finals[k].above = SumSeq(DrawnValues(Len(bars), finals[k].group, "above"))
          /\ finals[k].below = SumSeq(DrawnValues(Len(bars), finals[k].group, "below"))

\* C1's case: a finished group whose second negative segment hangs below
\* its first.
C1_Witness ==
    /\ pc = "group"
    /\ Len(bars) = 2
    /\ bars[2].value = -1 /\ bars[2].bottom = -2 /\ bars[2].height = 1
    /\ finals = <<[group |-> bars[2].group, above |-> 0, below |-> -2]>>

\* The distinct groups of a table in the order they are first encountered.
RECURSIVE EncounterOrder(_)
EncounterOrder(df) ==
    IF df = <<>> THEN <<>>
    ELSE LET rest == EncounterOrder(SubSeq(df, 1, Len(df) - 1))
             g == df[Len(df)].group
         IN  IF g \in Range(rest) THEN rest ELSE Append(rest, g)

\* The sum of the value column over a group's rows, missing values skipped.
GroupTotal(g) == SumSkipNa(Column(GroupRows(stack_df, g), "val"))

LocOf(g) == group_locs[1 + IndexOf(group_order, g)]

\* C3 as stated: a finished group has a net-emissions overlay exactly when
\* its below accumulator is non-zero, and the overlay's centre is the
\* group's x position and the group's above + below.
C3_OverlayAtNetOfDrawn ==
    pc \in {"save", "done"} =>
        /\ \A k \in 1..Len(finals) :
              (\E i \in 1..Len(net_patches) : net_patches[i].group = finals[k].group)
                  <=> finals[k].below # 0
        /\ \A i \in 1..Len(net_patches) :
              \E k \in 1..Len(finals) :
                 /\ finals[k].group = net_patches[i].group
                 /\ 2 * net_patches[i].x + net_patches[i].width
                       = 2 * LocOf(net_patches[i].group)
                 /\ 2 * net_patches[i].y + net_patches[i].height
                       = 2 * 1000000 * (finals[k].above + finals[k].below)

\* The largest per-group sum of the strictly positive values and the
\* smallest per-group sum of the strictly negative ones, over the groups
\* that have such values.
PosSum(g) == SumSeq(Column(SelectSeq(GroupRows(stack_df, g), LAMBDA r : Gt0(r.val)), "val"))

NegSum(g) == SumSeq(Column(SelectSeq(GroupRows(stack_df, g), LAMBDA r : Lt0(r.val)), "val"))

HasPos(g) == \E i \in 1..Len(stack_df) : stack_df[i].group = g /\ Gt0(stack_df[i].val)

HasNeg(g) == \E i \in 1..Len(stack_df) : stack_df[i].group = g /\ Lt0(stack_df[i].val)

\* C4 as stated: once the limits step has run, the y limits are numbers:
\* (-0.5%, 102%) of group_pos_max when no group has a negative value, and
\* otherwise group_neg_max - 1% R and group_pos_max + 1% R.  (Thousandths.)
C4_LimitsWellDefined ==
    (pc \in {"patches", "save", "done"} \/ error = "ValueError") =>
        /\ NotNa(ylim[1]) /\ NotNa(ylim[2])
        /\ \E p \in Range(Column(stack_df, "group")) :
              /\ HasPos(p)
              /\ \A g \in Range(Column(stack_df, "group")) :
                    HasPos(g) => PosSum(g) <= PosSum(p)
              /\ IF \A g \in Range(Column(stack_df, "group")) : ~HasNeg(g)
                 THEN ylim = <<-5 * PosSum(p), 1020 * PosSum(p)>>
                 ELSE \E n \in Range(Column(stack_df, "group")) :
                        /\ HasNeg(n)
                        /\ \A g \in Range(Column(stack_df, "group")) :
                              HasNeg(g) => NegSum(n) <= NegSum(g)
                        /\ ylim = <<1000 * NegSum(n) - 10 * (PosSum(p) - NegSum(n)),
                                    1000 * PosSum(p) + 10 * (PosSum(p) - NegSum(n))>>

\* A (group, hue) pair that draws nothing: no row, several rows, or a
\* missing value.
SkippedPair(g, h) ==
    \/ Len(PairRows(g, h)) # 1
    \/ IsNa(PairRows(g, h)[1].val)

OtherGroups(s, g) == SelectSeq(s, LAMBDA e : e.group # g)

\* C6: a step that processes a (group, hue) pair with no row, several rows
\* or a missing value draws no segment and leaves above and below as they
\* are; and a step on a pair of one group leaves every other group's
\* segments, finished accumulators and overlay decision as they are.
C6_SkipAndFrame ==
    [][(pc = "hue" /\ hidx <= Len(hue_order)) =>
          /\ SkippedPair(group_order[idx], hue_order[hidx]) =>
                /\ bars' = bars
                /\ bottom_above' = bottom_above
                /\ bottom_below' = bottom_below
                /\ pc' = "hue"
          /\ OtherGroups(bars', group_order[idx]) = OtherGroups(bars, group_order[idx])
          /\ finals' = finals
          /\ net_patches_to_add' = net_patches_to_add]_vars

\* C6's case: a pair with two rows, both with a value, was passed over.
C6_Witness ==
    /\ pc = "hue"
    /\ hidx = 2
    /\ Len(PairRows(group_order[idx], hue_order[1])) = 2
    /\ \A i \in 1..2 : NotNa(stack_df[i].val)
    /\ bars = <<>>

PaletteIncomplete == \E h \in Range(hue_order) : h \notin DOMAIN palette

\* C7: when hue_order holds a key the palette lacks, the run never gets past
\* the legend handles: the only place it can end is the error state, with a
\* KeyError, and no file is written.
C7_MissingPaletteKeyFails ==
    PaletteIncomplete =>
        /\ pc \in {"plot", "group", "hue", "error"}
        /\ pc = "error" => error = "KeyError"
        /\ files = <<>>

\* C7's case: the run failed although the key the palette lacks has no row
\* in the table, after segments of other keys were drawn.
C7_Witness ==
    /\ pc = "error"
    /\ bars # <<>>
    /\ \E h \in Range(hue_order) :
          /\ h \notin DOMAIN palette
          /\ \A i \in 1..Len(stack_df) : stack_df[i].hue # h

(***************************************************************************)
(* Configuration (eu_emissions_config.py).                                 *)
(***************************************************************************)
RESULTS_PATH == "results/"

COUNTRY_CODE_MAPPINGS == [c \in {"EL"} |-> "GR"]

GAS_SCOPE_SUMMARY == "Total"

CRF_CODE_SUMMARY == "Total_net"

COUNTRY_EXCLUDES == {"EU27"}

\* The name of the emissions column ("emissions_-_eea_[kt]") in the model.
EMISSIONS_COLUMN == "emissions"

(***************************************************************************)
(* create_emissions_per_capita (eu_emissions_main.py, lines 26-65).        *)
(* The main table's rows are records                                       *)
(*   [country_code, country_name, gas_scope, crf_code, sector_code,        *)
(*    sector_name, emissions]                                              *)
(* to which the function adds population and emissions_per_capita.         *)
(***************************************************************************)
\* Lines 34-38: Series.map(mappings).fillna(the code itself).
MapCode(code, mappings) ==
    IF code \in DOMAIN mappings THEN mappings[code] ELSE code

\* A mutation of LookupCountries: the excluded codes are looked up too.
LookupEveryCountry(df) == Range(Column(df, "country_code"))

\* Lines 41-46: the codes whose population is looked up.
LookupCountries(df) ==
    {c \in Range(Column(df, "country_code")) : c \notin COUNTRY_EXCLUDES}

\* Lines 49-51: pyp.get_population_a2 gives a population, or None (here
\* NaN) for a code it does not know.
CountryPopulationDict(countries, lookup) == [c \in countries |-> lookup[c]]

\* Lines 54-56: Series.map(dict) is missing for a code that is no key.
Population(code, dict) == IF code \in DOMAIN dict THEN dict[code] ELSE NaN

\* Lines 59-63, in tonnes per head.  The populations of the model divide
\* 10^6 times every emissions value, so the quotient is exact.
PerCapita(emissions, population) ==
    IF NotNa(population)
    THEN IF IsNa(emissions) THEN NaN ELSE (1000000 * emissions) \div population
    ELSE NaN

\* Lines 34-65: the table the function leaves (and returns).
WithPerCapita(df, emissions_col, mappings, lookup) ==
    LET mapped == [i \in 1..Len(df) |->
                      [df[i] EXCEPT !.country_code = MapCode(@, mappings)]]
        dict == CountryPopulationDict(LookupCountries(mapped), lookup)
    IN  [i \in 1..Len(df) |->
            LET r == mapped[i]
                population == Population(r.country_code, dict)
            IN  [country_code |-> r.country_code,
                 country_name |-> r.country_name,
                 gas_scope    |-> r.gas_scope,
                 crf_code     |-> r.crf_code,
                 sector_code  |-> r.sector_code,
                 sector_name  |-> r.sector_name,
                 emissions    |-> r.emissions,
                 population   |-> population,
                 emissions_per_capita |-> PerCapita(r[emissions_col], population)]]

\* main, lines 339-344 (and the function on its own).
CreateEmissionsPerCapita ==
    /\ pc = "per_capita"
    /\ emissions_df' = WithPerCapita(emissions_df, EMISSIONS_COLUMN,
                                     COUNTRY_CODE_MAPPINGS, population_of)
    /\ enriched_df' = emissions_df'
    /\ metric_i' = 1
    /\ pc' = IF in_main THEN "overall" ELSE "done"
    /\ UNCHANGED <<error, files, plotArgs, plotLocals, in_main, population_of,
                   raw_df, statistic_i, sector_i, local_df>>

(***************************************************************************)
(* create_emissions_per_capita called on its own, on any small table.      *)
(***************************************************************************)
\* Largest number of rows of a table handed to create_emissions_per_capita.
MaxPerCapitaRows == 2

CountryNames == [c \in {"AT", "EL", "GR", "EU27", "XK"} |->
                    CASE c = "AT" -> "Austria"
                      [] c = "EU27" -> "EU27"
                      [] c = "XK" -> "Kosovo"
                      [] OTHER -> "Greece"]

\* What the population lookup may answer: "EL" is no alpha-2 code and "XK"
\* is unknown to it; the others are known or not.
PopulationTables ==
    {[c \in DOMAIN CountryNames |->
         CASE c = "AT" -> at [] c = "GR" -> gr [] c = "EU27" -> eu [] OTHER -> NaN] :
       at \in {1000000, NaN}, gr \in {500000, NaN}, eu \in {1000000, NaN}}

SummaryRows ==
    {[country_code |-> c, country_name |-> CountryNames[c],
      gas_scope |-> GAS_SCOPE_SUMMARY, crf_code |-> CRF_CODE_SUMMARY,
      sector_code |-> CRF_CODE_SUMMARY, sector_name |-> CRF_CODE_SUMMARY,
      emissions |-> e] :
        c \in {"AT", "EL", "EU27", "XK"}, e \in {-1, 3, NaN}}

InitPerCapita ==
    /\ pc = "per_capita"
    /\ error = ""
    /\ files = <<>>
    /\ stack_df = <<>> /\ hue_order = <<>> /\ palette = <<>>
    /\ statistic = "" /\ save_path = [dir |-> "", name |-> ""]
    /\ LocalsUnset
    /\ in_main = FALSE
    /\ population_of \in PopulationTables
    /\ raw_df \in SeqsUpTo(SummaryRows, MaxPerCapitaRows)
    /\ emissions_df = raw_df
    /\ enriched_df = <<>>
    /\ metric_i = 0 /\ statistic_i = 0 /\ sector_i = 0
    /\ local_df = <<>>

NextPerCapita == CreateEmissionsPerCapita

SpecPerCapita == InitPerCapita /\ [][NextPerCapita]_vars

\* C8: create_emissions_per_capita ends without an exception, and in every
\* row the country code is the code as read passed through the mapping
\* (unchanged when it is no key); emissions_per_capita is
\* 1,000,000 * emissions / population when the mapped code is not excluded
\* and the lookup knows it (missing when emissions is), and it is missing,
\* never zero, when the mapped code is excluded or unknown to the lookup.
C8_PerCapita ==
    /\ error = ""
    /\ pc \in {"per_capita", "done"}
    /\ pc = "done" =>
          /\ Len(emissions_df) = Len(raw_df)
          /\ \A i \in 1..Len(raw_df) :
                LET read == raw_df[i].country_code
                    code == IF read = "EL" THEN "GR" ELSE read
                    value == emissions_df[i].emissions_per_capita
                IN  /\ emissions_df[i].country_code = code
                    /\ emissions_df[i].emissions = raw_df[i].emissions
                    /\ IF code # "EU27" /\ NotNa(population_of[code])
                       THEN IF IsNa(raw_df[i].emissions)
                            THEN IsNa(value)
                            ELSE /\ NotNa(value)
                                 /\ value * population_of[code]
                                       = 1000000 * raw_df[i].emissions
                       ELSE IsNa(value)

\* C8's case: a row read as "EL" got Greece's population, and a row of the
\* excluded "EU27", whose population the lookup would know, got none.
C8_Witness ==
    /\ pc = "done"
    /\ Len(raw_df) = 2
    /\ raw_df[1].country_code = "EL"
    /\ emissions_df[1].country_code = "GR"
    /\ emissions_df[1].emissions_per_capita = 6
    /\ raw_df[2].country_code = "EU27"
    /\ NotNa(population_of["EU27"])
    /\ IsNa(emissions_df[2].emissions_per_capita)

(***************************************************************************)
(* Sectors (eu_emissions_config.py, lines 22-98).                          *)
(***************************************************************************)
OVERALL_SECTOR_CODES == <<"1", "2", "3", "4", "5", "6">>

ENERGY_SECTOR_CODES ==
    <<"1.A.1", "1.A.2", "1.A.3", "1.A.4", "1.A.5", "1.B", "1.C", "1.D.1.a",
      "1.D.1.b">>

INDUSTRIAL_SECTOR_CODES ==
    <<"2.A", "2.B", "2.C", "2.D", "2.E", "2.F", "2.G", "2.H">>

AGRICULTURE_SECTOR_CODES ==
    <<"3.A", "3.B", "3.C", "3.D", "3.E", "3.F", "3.G", "3.H", "3.I", "3.J">>

LULUCF_SECTOR_CODES ==
    <<"4.A", "4.B", "4.C", "4.D", "4.E", "4.F", "4.G", "4.H">>

WASTE_SECTOR_CODES == <<"5.A", "5.B", "5.C", "5.D", "5.E">>

\* The keys of SECTOR_DICTIONARIES, in the order of the dict.
SectorNames ==
    <<"Overall", "Energy", "Industrial Processes and Product Use",
      "Agriculture", "Land Use, Land-Use Change and Forestry", "Waste">>

ConfiguredCodes(sector) ==
    CASE sector = "Overall" -> OVERALL_SECTOR_CODES
      [] sector = "Energy" -> ENERGY_SECTOR_CODES
      [] sector = "Industrial Processes and Product Use" -> INDUSTRIAL_SECTOR_CODES
      [] sector = "Agriculture" -> AGRICULTURE_SECTOR_CODES
      [] sector = "Land Use, Land-Use Change and Forestry" -> LULUCF_SECTOR_CODES
      [] sector = "Waste" -> WASTE_SECTOR_CODES

\* The model keeps the first MaxSectorCodes codes of every sector.
MaxSectorCodes == 1

SectorCodes(sector) ==
    LET all == ConfiguredCodes(sector)
    IN  SubSeq(all, 1, IF Len(all) < MaxSectorCodes THEN Len(all) ELSE MaxSectorCodes)

\* SECTOR_DICTIONARIES[sector]: each code's colour (its number in the
\* seaborn palette).
SECTOR_DICTIONARIES(sector) ==
    [c \in Range(SectorCodes(sector)) |-> 1 + IndexOf(SectorCodes(sector), c)]

(***************************************************************************)
(* Sector names.  A sub-sector's name in the data is its code, " - " and a *)
(* label; the label of the model holds a hyphen of its own.  Split is      *)
(* str.split("-") on the strings that occur, Join is "-".join.             *)
(***************************************************************************)
AllSectorCodes ==
    UNION {Range(SectorCodes(SectorNames[i])) : i \in 1..Len(SectorNames)}

RawSectorName(code) == code \o " - Sub-sector " \o code

Split(name) ==
    IF \E c \in AllSectorCodes : name = RawSectorName(c)
    THEN LET c == CHOOSE c \in AllSectorCodes : name = RawSectorName(c)
         IN  <<c \o " ", " Sub", "sector " \o c>>
    ELSE IF \E c \in AllSectorCodes : name = " Sub-sector " \o c
    THEN LET c == CHOOSE c \in AllSectorCodes : name = " Sub-sector " \o c
         IN  <<" Sub", "sector " \o c>>
    ELSE <<name>>

RECURSIVE Join(_)
Join(parts) ==
    IF parts = <<>> THEN ""
    ELSE IF Len(parts) = 1 THEN parts[1]
    ELSE parts[1] \o "-" \o Join(Tail(parts))

\* Lines 218-222: .str.split("-").apply(lambda x: "-".join(x[1:])).
CleanSectorName(name) == Join(Tail(Split(name)))

(***************************************************************************)
(* The builders' computations (eu_emissions_main.py).                      *)
(***************************************************************************)
Metrics == <<EMISSIONS_COLUMN, "emissions_per_capita">>

Statistics == <<"total", "share">>

\* main, lines 348-351.
SaveDir(emissions_col) ==
    IF emissions_col = "emissions_per_capita"
    THEN RESULTS_PATH \o "emissions_per_capita/"
    ELSE RESULTS_PATH \o "emissions/"

\* create_overall_barplot, lines 84-87.
OverallSaveName(emissions_col) ==
    IF emissions_col = "emissions_per_capita"
    THEN "emissions_per_capita_2022.png"
    ELSE "emissions_2022.png"

\* create_emissions_by_gas, lines 114-123 and 164.
GasSaveName(emissions_col, stat) ==
    (IF stat = "share" THEN "pct_share_of_" ELSE "")
    \o (IF emissions_col = "emissions_per_capita"
        THEN "emissions_per_capita_by_gas_2022.png"
        ELSE "emissions_by_gas_2022.png")

\* A mutation of SectorSaveName: the sector is left out of the name.
SectorSaveNameWithoutSector(emissions_col, sector, stat) ==
    (IF stat = "share" THEN "pct_share_of_" ELSE "")
    \o (IF emissions_col = "emissions_per_capita"
        THEN "emissions_per_capita_by_sector_2022.png"
        ELSE "emissions_by_sector_2022.png")

\* create_emissions_by_sector, lines 225-235 and 295.
SectorSaveName(emissions_col, sector, stat) ==
    (IF stat = "share" THEN "pct_share_of_" ELSE "")
    \o (IF emissions_col = "emissions_per_capita"
        THEN "emissions_per_capita_by_sector_" \o sector \o "_2022.png"
        ELSE "emissions_by_sector_" \o sector \o "_2022.png")

\* The rows handed to plot_stacked_barplot: the group, hue and value
\* columns it is told to read, and the base column it reads in share mode.
PlotRows(df, group_col, hue_col, emissions_col, base_col) ==
    [i \in 1..Len(df) |->
        [group |-> df[i][group_col], hue |-> df[i][hue_col],
         val |-> df[i][emissions_col], base |-> df[i][base_col]]]

\* A row with one more column.
WithColumn(r, col, value) ==
    [f \in DOMAIN r \cup {col} |-> IF f = col THEN value ELSE r[f]]

\* Lines 107-111: the rows create_emissions_by_gas selects.
IsGasRow(r) ==
    /\ r.crf_code = CRF_CODE_SUMMARY
    /\ r.country_code \notin COUNTRY_EXCLUDES
    /\ r.gas_scope # GAS_SCOPE_SUMMARY

\* Lines 211-215: the rows create_emissions_by_sector selects.
IsSectorRow(r, sector_codes) ==
    /\ r.country_code \notin COUNTRY_EXCLUDES
    /\ r.gas_scope = GAS_SCOPE_SUMMARY
    /\ r.sector_code \in Range(sector_codes)

\* A mutation of SharedAfterAssignment: the selection is a view, and the
\* assignment reaches the shared table.
SharedAfterAssignmentToView(df, positions, col, values) ==
    [i \in 1..Len(df) |->
        IF i \in positions THEN [df[i] EXCEPT ![col] = values[i]] ELSE df[i]]

\* Lines 211-222 and 238-240: df.loc[mask] with a boolean mask is a copy, so
\* assigning a column of the selection leaves the table it was taken from
\* as it is (values: the value assigned at each selected position).
SharedAfterAssignment(df, positions, col, values) == df

\* A mutation of KeepEmissions: absorption is not filtered out.
KeepEveryRow(df, emissions_col) == df

\* Lines 128-130 and 259-261: share mode keeps the strictly positive values.
KeepEmissions(df, emissions_col) ==
    SelectSeq(df, LAMBDA r : Gt0(r[emissions_col]))

\* Lines 133-135 and 264-266.
CountryTotals(df, emissions_col) ==
    GroupBySum(df, "country_code", emissions_col)

\* A mutation of EmissionsCountryTotals: the totals are taken in the order
\* of the groupby, not looked up by each row's country.
EmissionsCountryTotalsInGroupOrder(df, country_totals) ==
    [i \in 1..Len(df) |->
        country_totals[IF i <= Len(country_totals) THEN i
                       ELSE Len(country_totals)].sum]

\* Lines 138-142 and 269-275: country_totals.loc[the rows' codes], one
\* total per row, renumbered from 0 like the rows.
EmissionsCountryTotals(df, country_totals) ==
    [i \in 1..Len(df) |-> SeriesLoc(country_totals, df[i].country_code)]

\* The unit shares are counted in: shares are 100 * value / total, kept
\* exact as multiples of 1 / ShareUnit percent, ShareUnit the product of
\* the country totals (each divides it; a total of 0, which the filter of
\* lines 128-130 rules out, is left out of the product).
RECURSIVE ProductOfSums(_)
ProductOfSums(series) ==
    IF series = <<>> THEN 1
    ELSE (IF Head(series).sum = 0 THEN 1 ELSE Head(series).sum)
         * ProductOfSums(Tail(series))

ShareUnit(country_totals) == ProductOfSums(country_totals)

\* Lines 154-158 and 285-289: 100 * value / total, in 1 / unit percent.
\* A float division by 0 raises nothing and gives no finite number.
Share(value, total, unit) ==
    IF IsNa(value) \/ IsNa(total) \/ total = 0 THEN NaN
    ELSE 100 * value * (unit \div total)

\* Lines 126-158 and 257-289: the builder's table in share mode, with the
\* columns country_total_emissions and share (emissions_col + "_share").
ShareTable(df, emissions_col) ==
    LET kept == KeepEmissions(df, emissions_col)
        country_totals == CountryTotals(kept, emissions_col)
        totals == EmissionsCountryTotals(kept, country_totals)
        unit == ShareUnit(country_totals)
    IN  [i \in 1..Len(kept) |->
            WithColumn(WithColumn(kept[i], "country_total_emissions", totals[i]),
                       "share", Share(kept[i][emissions_col], totals[i], unit))]

\* Lines 171-176 and 241-246: the stack keys by descending sum.
StackOrder(df, hue_col, col) ==
    Column(SortValuesDescending(GroupBySum(df, hue_col, col)), "key")

\* np.abs.
Abs(x) == IF IsNa(x) THEN NaN ELSE IF x < 0 THEN -x ELSE x

\* Lines 249-253: groupby("sector_code")["sector_name"].first().to_dict().
PaletteMapping(df) ==
    [c \in Range(Column(df, "sector_code")) |->
        SelectSeq(df, LAMBDA r : r.sector_code = c)[1].sector_name]

\* Line 254: {palette_mapping[k]: v for k, v in palette.items()}; of two
\* codes with one name the later code's colour stays.
RenamedPalette(pal, codes, mapping) ==
    [n \in {mapping[k] : k \in DOMAIN pal} |->
        pal[codes[CHOOSE i \in 1..Len(codes) :
                     /\ mapping[codes[i]] = n
                     /\ \A j \in (i+1)..Len(codes) : mapping[codes[j]] # n]]]

\* The locals of plot_stacked_barplot at the start of a call.
ResetLocals ==
    /\ group_sums_sorted' = <<>> /\ group_order' = <<>>
    /\ group_pos_max' = NaN /\ group_neg_max' = NaN
    /\ idx' = 0 /\ hidx' = 0 /\ group_df' = <<>>
    /\ bottom_above' = 0 /\ bottom_below' = 0
    /\ group_loc' = -5 /\ group_locs' = <<>> /\ net_patches_to_add' = <<>>
    /\ bars' = <<>> /\ ylim' = <<NaN, NaN>> /\ net_patches' = <<>>
    /\ finals' = <<>>

\* create_emissions_by_gas (lines 102-196), up to its call of
\* plot_stacked_barplot.
CreateEmissionsByGas ==
    /\ pc = "gas"
    /\ LET emissions_col == Metrics[metric_i]
           stat == Statistics[statistic_i]
           selected == SelectSeq(emissions_df, IsGasRow)
           gas_emissions == IF stat = "share"
                            THEN ShareTable(selected, emissions_col)
                            ELSE selected
           plot_col == IF stat = "share" THEN "share" ELSE emissions_col
           gas_emissions_order == StackOrder(gas_emissions, "gas_scope", plot_col)
       IN  /\ local_df' = gas_emissions
           /\ stack_df' = PlotRows(gas_emissions, "country_name", "gas_scope",
                                   plot_col, emissions_col)
           /\ hue_order' = gas_emissions_order
           /\ palette' = [h \in Range(gas_emissions_order) |->
                             1 + IndexOf(gas_emissions_order, h)]
           /\ statistic' = stat
           /\ save_path' = [dir |-> SaveDir(emissions_col),
                            name |-> GasSaveName(emissions_col, stat)]
    /\ ResetLocals
    /\ pc' = "plot"
    /\ UNCHANGED <<error, files, in_main, population_of, raw_df, emissions_df,
                   enriched_df, metric_i, statistic_i, sector_i>>

\* create_emissions_by_sector (lines 199-315), up to its call of
\* plot_stacked_barplot.  palette_mapping[k] raises KeyError for a code of
\* the palette that no selected row carries.
CreateEmissionsBySector ==
    /\ pc = "sector"
    /\ sector_i <= Len(SectorNames)
    /\ LET emissions_col == Metrics[metric_i]
           stat == Statistics[statistic_i]
           sector == SectorNames[sector_i]
           sector_codes == SectorCodes(sector)
           pal == SECTOR_DICTIONARIES(sector)
           positions == {i \in 1..Len(emissions_df) :
                            IsSectorRow(emissions_df[i], sector_codes)}
           selected == SelectSeq(emissions_df,
                                 LAMBDA r : IsSectorRow(r, sector_codes))
           cleaned == [i \in 1..Len(selected) |->
                          WithColumn(
                              [selected[i] EXCEPT
                                  !.sector_name = CleanSectorName(@)],
                              "abs_emissions", Abs(selected[i][emissions_col]))]
           sector_emissions_order ==
               StackOrder(cleaned, "sector_name", "abs_emissions")
           palette_mapping == PaletteMapping(cleaned)
           sector_overall_emissions == IF stat = "share"
                                       THEN ShareTable(cleaned, emissions_col)
                                       ELSE cleaned
           plot_col == IF stat = "share" THEN "share" ELSE emissions_col
       IN  /\ emissions_df' =
                 SharedAfterAssignment(
                     emissions_df, positions, "sector_name",
                     [i \in positions |->
                         CleanSectorName(emissions_df[i].sector_name)])
           /\ IF \E k \in DOMAIN pal : k \notin DOMAIN palette_mapping
              THEN /\ pc' = "error"
                   /\ error' = "KeyError"
                   /\ local_df' = cleaned
                   /\ UNCHANGED <<plotArgs, plotLocals>>
              ELSE /\ local_df' = sector_overall_emissions
                   /\ stack_df' = PlotRows(sector_overall_emissions,
                                           "country_name", "sector_name",
                                           plot_col, emissions_col)
                   /\ hue_order' = sector_emissions_order
                   /\ palette' = RenamedPalette(pal, sector_codes,
                                                palette_mapping)
                   /\ statistic' = stat
                   /\ save_path' = [dir |-> SaveDir(emissions_col),
                                    name |-> SectorSaveName(emissions_col,
                                                            sector, stat)]
                   /\ ResetLocals
                   /\ pc' = "plot"
                   /\ UNCHANGED error
    /\ UNCHANGED <<files, in_main, population_of, raw_df, enriched_df,
                   metric_i, statistic_i, sector_i>>

(***************************************************************************)
(* A builder called on its own, in either mode, on any small table.        *)
(***************************************************************************)
\* Largest number of rows of a table handed directly to a builder.
MaxBuilderRows == 2

BuilderValues == {-1, 0, 1, 3, NaN}

\* The sectors a builder is called for on its own (positions in
\* SectorNames: "Overall" and "Land Use, Land-Use Change and Forestry").
BuilderSectors == {1, 5}

\* Per-gas rows of the countries AT, GR and the excluded EU27.
BuilderGasRows ==
    {[country_code |-> c, country_name |-> CountryNames[c],
      gas_scope |-> g, crf_code |-> CRF_CODE_SUMMARY,
      sector_code |-> CRF_CODE_SUMMARY, sector_name |-> CRF_CODE_SUMMARY,
      emissions |-> e] :
        c \in {"AT", "GR", "EU27"}, g \in {"CH4", "CO2"}, e \in BuilderValues}

\* Sub-sector rows of the same countries, for the sector's own codes and
\* for a code of another sector.
BuilderSectorRows(sector) ==
    {[country_code |-> c, country_name |-> CountryNames[c],
      gas_scope |-> GAS_SCOPE_SUMMARY, crf_code |-> k,
      sector_code |-> k, sector_name |-> RawSectorName(k),
      emissions |-> e] :
        c \in {"AT", "GR", "EU27"},
        k \in Range(SectorCodes(sector)) \cup {"5.A"},
        e \in BuilderValues}

InitBuilder ==
    /\ error = ""
    /\ files = <<>>
    /\ stack_df = <<>> /\ hue_order = <<>> /\ palette = <<>>
    /\ statistic = "" /\ save_path = [dir |-> "", name |-> ""]
    /\ LocalsUnset
    /\ in_main = FALSE
    /\ population_of = <<>>
    /\ metric_i = 1
    /\ statistic_i \in 1..Len(Statistics)
    /\ \/ /\ pc = "gas"
          /\ sector_i = 0
          /\ emissions_df \in SeqsUpTo(BuilderGasRows, MaxBuilderRows)
       \/ /\ pc = "sector"
          /\ sector_i \in BuilderSectors
          /\ emissions_df \in SeqsUpTo(BuilderSectorRows(SectorNames[sector_i]),
                                       MaxBuilderRows)
    /\ raw_df = emissions_df
    /\ enriched_df = emissions_df
    /\ local_df = <<>>

NextBuilder ==
    \/ CreateEmissionsByGas
    \/ CreateEmissionsBySector
    \/ PlotSetup
    \/ BeginGroup
    \/ StackHue
    \/ EndGroup
    \/ CreateLegend
    \/ SetLimits
    \/ AddNetPatches
    \/ SaveFig

SpecBuilder == InitBuilder /\ [][NextBuilder]_vars

\* The rows a builder starts from, as the table holds them.
SelectedRows ==
    IF sector_i = 0
    THEN SelectSeq(emissions_df, IsGasRow)
    ELSE SelectSeq(emissions_df,
                   LAMBDA r : IsSectorRow(r, SectorCodes(SectorNames[sector_i])))

\* The sum of the emissions of the builder's rows of one country.
KeptTotal(code) ==
    SumSeq(Column(SelectSeq(local_df, LAMBDA r : r.country_code = code),
                  Metrics[metric_i]))

ShareSum(code) ==
    SumSeq(Column(SelectSeq(local_df, LAMBDA r : r.country_code = code), "share"))

KeptCountries == Range(Column(local_df, "country_code"))

RECURSIVE ProductOver(_)
ProductOver(S) ==
    IF S = {} THEN 1
    ELSE LET c == CHOOSE c \in S : TRUE IN KeptTotal(c) * ProductOver(S \ {c})

\* C5: in share mode a builder keeps exactly the selected rows whose value
\* is strictly positive, in their order; each kept row is paired with the
\* total of the kept values of its own country and its share is
\* 100 * value / that total; the shares of every country with a kept row
\* sum to 100.  (Shares are in units of 1 / U percent, U the product of
\* the countries' totals.)
C5_Shares ==
    (pc \notin {"gas", "sector"} /\ error = "" /\ Statistics[statistic_i] = "share") =>
        LET col == Metrics[metric_i]
            U == ProductOver(KeptCountries)
        IN  /\ Column(local_df, col) =
                   SelectSeq(Column(SelectedRows, col), LAMBDA v : NotNa(v) /\ v > 0)
            /\ Column(local_df, "country_code") =
                   Column(SelectSeq(SelectedRows, LAMBDA r : Gt0(r[col])),
                          "country_code")
            /\ \A i \in 1..Len(local_df) :
                  /\ local_df[i][col] > 0
                  /\ local_df[i].country_total_emissions
                        = KeptTotal(local_df[i].country_code)
                  /\ local_df[i].share * KeptTotal(local_df[i].country_code)
                        = 100 * local_df[i][col] * U
                  /\ stack_df[i].val = local_df[i].share
            /\ \A c \in KeptCountries : ShareSum(c) = 100 * U

\* C5's case: a share chart was saved for a country with the values 1 and
\* 3: its total is 4 and its shares are 25% and 75% (in quarters of a
\* percent, 100 and 300).
C5_Witness ==
    /\ pc = "done"
    /\ Statistics[statistic_i] = "share"
    /\ Len(local_df) = 2
    /\ local_df[1].country_code = local_df[2].country_code
    /\ local_df[1].country_total_emissions = 4
    /\ local_df[1].share = 100
    /\ local_df[2].share = 300

(***************************************************************************)
(* main (eu_emissions_main.py, lines 318-393).                             *)
(***************************************************************************)
\* Lines 347-360: the head of the loop over the metrics; os.makedirs and
\* create_overall_barplot, whose plot_basic_barplot saves the figure
\* (eu_emissions_functions.py, line 49).
CreateOverallBarplot ==
    /\ pc = "overall"
    /\ LET emissions_col == Metrics[metric_i]
       IN  files' = Append(files, SaveDir(emissions_col)
                                     \o OverallSaveName(emissions_col))
    /\ statistic_i' = 1
    /\ pc' = "statistic"
    /\ UNCHANGED <<error, plotArgs, plotLocals, in_main, population_of, raw_df,
                   emissions_df, enriched_df, metric_i, sector_i, local_df>>

\* Lines 363-368: the loop over the statistics; share is skipped for the
\* per-capita metric.  After the last statistic comes the next metric, and
\* after the last metric main returns.
StatisticLoop ==
    /\ pc = "statistic"
    /\ IF statistic_i > Len(Statistics)
       THEN /\ metric_i' = metric_i + 1
            /\ pc' = IF metric_i' > Len(Metrics) THEN "main_done" ELSE "overall"
            /\ UNCHANGED <<statistic_i, sector_i>>
       ELSE IF /\ Statistics[statistic_i] = "share"
               /\ Metrics[metric_i] = "emissions_per_capita"
       THEN /\ statistic_i' = statistic_i + 1
            /\ UNCHANGED <<pc, metric_i, sector_i>>
       ELSE /\ pc' = "gas"
            /\ sector_i' = 0
            /\ UNCHANGED <<metric_i, statistic_i>>
    /\ UNCHANGED <<error, files, plotArgs, plotLocals, in_main, population_of,
                   raw_df, emissions_df, enriched_df, local_df>>

\* plot_stacked_barplot returns to the builder and the builder to main:
\* after the gas chart (lines 371-376) comes the first sector, after a
\* sector chart (lines 385-393) the next one.
ReturnToMain ==
    /\ pc = "done"
    /\ in_main
    /\ sector_i' = sector_i + 1
    /\ pc' = "sector"
    /\ UNCHANGED <<error, files, plotArgs, plotLocals, in_main, population_of,
                   raw_df, emissions_df, enriched_df, metric_i, statistic_i,
                   local_df>>

\* Lines 379-382: the sectors are exhausted; on to the next statistic.
SectorLoopEnd ==
    /\ pc = "sector"
    /\ sector_i > Len(SectorNames)
    /\ statistic_i' = statistic_i + 1
    /\ pc' = "statistic"
    /\ UNCHANGED <<error, files, plotArgs, plotLocals, in_main, population_of,
                   raw_df, emissions_df, enriched_df, metric_i, sector_i,
                   local_df>>

(***************************************************************************)
(* The tables main is run on: for each of three countries (one of them the *)
(* excluded EU27, one read under the code "EL") the summary row, a row per *)
(* gas and a row per configured sub-sector, all with positive emissions,   *)
(* and at most one value of the table replaced.                            *)
(***************************************************************************)
MainCountries == <<"AT", "EL", "EU27">>

MainGases == <<"CO2", "CH4">>

AllSectorCodesInOrder ==
    SectorCodes(SectorNames[1]) \o SectorCodes(SectorNames[2])
    \o SectorCodes(SectorNames[3]) \o SectorCodes(SectorNames[4])
    \o SectorCodes(SectorNames[5]) \o SectorCodes(SectorNames[6])

\* The rows of country number c (emissions c for a gas or a sub-sector).
CountryRows(c) ==
    LET code == MainCountries[c]
        Row(gas, crf, name, e) ==
            [country_code |-> code, country_name |-> CountryNames[code],
             gas_scope |-> gas, crf_code |-> crf, sector_code |-> crf,
             sector_name |-> name, emissions |-> e]
    IN  <<Row(GAS_SCOPE_SUMMARY, CRF_CODE_SUMMARY, CRF_CODE_SUMMARY, 2 * c)>>
        \o [g \in 1..Len(MainGases) |->
               Row(MainGases[g], CRF_CODE_SUMMARY, CRF_CODE_SUMMARY, c)]
        \o [k \in 1..Len(AllSectorCodesInOrder) |->
               Row(GAS_SCOPE_SUMMARY, AllSectorCodesInOrder[k],
                   RawSectorName(AllSectorCodesInOrder[k]), c)]

BaseTable == CountryRows(1) \o CountryRows(2) \o CountryRows(3)

\* The table with the value of row k replaced (k = 0: none).
Replaced(k, e) ==
    [i \in 1..Len(BaseTable) |->
        IF i = k THEN [BaseTable[i] EXCEPT !.emissions = e] ELSE BaseTable[i]]

MainPopulationTables ==
    {t \in PopulationTables : NotNa(t["AT"]) /\ NotNa(t["EU27"])}

InitMain ==
    /\ pc = "per_capita"
    /\ error = ""
    /\ files = <<>>
    /\ stack_df = <<>> /\ hue_order = <<>> /\ palette = <<>>
    /\ statistic = "" /\ save_path = [dir |-> "", name |-> ""]
    /\ LocalsUnset
    /\ in_main = TRUE
    /\ population_of \in MainPopulationTables
    /\ \E k \in 0..Len(BaseTable), e \in {-1, NaN} : raw_df = Replaced(k, e)
    /\ emissions_df = raw_df
    /\ enriched_df = <<>>
    /\ metric_i = 0 /\ statistic_i = 0 /\ sector_i = 0
    /\ local_df = <<>>

NextMain ==
    \/ CreateEmissionsPerCapita
    \/ CreateOverallBarplot
    \/ StatisticLoop
    \/ CreateEmissionsByGas
    \/ CreateEmissionsBySector
    \/ SectorLoopEnd
    \/ ReturnToMain
    \/ PlotSetup
    \/ BeginGroup
    \/ StackHue
    \/ EndGroup
    \/ CreateLegend
    \/ SetLimits
    \/ AddNetPatches
    \/ SaveFig

SpecMain == InitMain /\ [][NextMain]_vars

\* C9: in a run of main no two charts are written to the same path.
C9_DistinctPaths ==
    \A i, j \in 1..Len(files) : i # j => files[i] # files[j]

\* C9's case: main ran to its end and wrote all its charts: for the
\* emissions metric the overall chart and, in both modes, the gas chart and
\* six sector charts; for the per-capita metric the same in total mode.
C9_Witness ==
    /\ pc = "main_done"
    /\ Len(files) = 1 + 2 * (1 + Len(SectorNames)) + 1 + (1 + Len(SectorNames))

\* C10: from the return of create_emissions_per_capita on, main's table is
\* the table that call left, whatever charts have been produced since.
C10_TableUnchanged ==
    pc # "per_capita" => emissions_df = enriched_df

\* C10's case: main ran to its end, so every builder ran on the table,
\* create_emissions_by_sector eighteen times.
C10_Witness ==
    /\ pc = "main_done"
    /\ Len(files) > 2 * Len(SectorNames)
    /\ \E i \in 1..Len(emissions_df) :
          emissions_df[i].sector_name = RawSectorName("1")

(***************************************************************************)
(* plot_stacked_barplot: the positions of the groups.                      *)
(***************************************************************************)
\* The groups the loop has finished without drawing a segment for them.
EmptyGroups ==
    {finals[i].group : i \in 1..Len(finals)}
        \ {bars[b].group : b \in 1..Len(bars)}

\* The positions recorded so far are -0.5, 0.5, ... (in tenths), one per
\* finished group in the group order, and once the loop is over one per
\* group: these are the ticks set_xticks labels with group_order.
GroupPositions ==
    /\ Len(group_locs) = Len(finals)
    /\ Len(group_locs) <= Len(group_order)
    /\ \A i \in 1..Len(group_locs) :
          /\ group_locs[i] = -5 + 10 * (i - 1)
          /\ finals[i].group = group_order[i]
    /\ pc \in {"limits", "patches", "save", "done"} =>
          Len(group_locs) = Len(group_order)

\* C11 as stated: the i-th group of the group order is at -0.5 + i, one
\* position per group in that order, a group without a drawn segment
\* included, and such a group does not make the call fail: whenever the
\* call has finished a group without a segment and every hue has a colour,
\* it has not ended in an exception.
C11_EmptyGroupPositioned ==
    /\ GroupPositions
    /\ (EmptyGroups # {} /\ MissingPaletteKeys(hue_order, palette) = {}) =>
          error = ""

(***************************************************************************)
(* Share mode as the builders call it.                                     *)
(***************************************************************************)
\* plot_stacked_barplot has been entered (and maybe left) in share mode.
PlottingShares == statistic = "share"

\* Control is in a builder main has called, or in its plot.
InBuilderOfMain ==
    /\ in_main
    /\ pc \in {"gas", "plot", "group", "hue", "limits", "patches", "save",
               "done", "error"}

\* C12: in a share-mode call made by create_emissions_by_gas or
\* create_emissions_by_sector every value handed to plot_stacked_barplot is
\* strictly positive; so the below accumulator is 0 in every group, no
\* group is recorded for a net-emissions overlay and none is drawn (hence
\* no 'Net Emissions' legend), group_neg_max is missing, and the y limits
\* of a chart that gets them are (-0.5%, 102%) of group_pos_max.  And main
\* is never in a builder with the statistic share and the metric
\* emissions_per_capita.
C12_ShareModePositive ==
    /\ PlottingShares =>
          /\ \A i \in 1..Len(stack_df) : Gt0(stack_df[i].val)
          /\ bottom_below = 0
          /\ \A i \in 1..Len(finals) : finals[i].below = 0
          /\ \A b \in 1..Len(bars) : bars[b].bottom >= 0
          /\ net_patches_to_add = <<>>
          /\ net_patches = <<>>
          /\ IsNa(group_neg_max)
          /\ pc \in {"patches", "save", "done"} =>
                /\ Gt0(group_pos_max)
                /\ ylim = <<-5 * group_pos_max, 1020 * group_pos_max>>
    /\ InBuilderOfMain =>
          ~(/\ Statistics[statistic_i] = "share"
            /\ Metrics[metric_i] = "emissions_per_capita")

\* C12's case: main has saved the share chart of its last sector, whose
\* table held a negative value: the filter dropped that row and the chart
\* was drawn from the rows left.
C12_Witness ==
    /\ in_main
    /\ pc = "done"
    /\ PlottingShares
    /\ sector_i = Len(SectorNames)
    /\ LET rows == {i \in 1..Len(emissions_df) :
                       IsSectorRow(emissions_df[i],
                                   SectorCodes(SectorNames[sector_i]))}
       IN  /\ \E i \in rows : Lt0(emissions_df[i].emissions)
           /\ Len(stack_df) + 1 = Cardinality(rows)
    /\ Len(bars) = Len(stack_df)

=============================================================================
